---- MODULE Spec2Model ----
(***************************************************************************)
(* txngo: the record codec, the write-ahead log and the transaction engine *)
(* of main.go.  Byte slices live in a heap of buffers, so that two slices  *)
(* that share a backing array (a value returned by Read and the value the  *)
(* engine keeps) are the same address here.                                *)
(***************************************************************************)
EXTENDS Integers, Sequences, FiniteSets, TLC

\* ------------------------------------------------------------------ bounds
\* Commit may be entered with a non-empty write-set while the WAL holds at
\* most MaxWalLen bytes (the WAL only grows); the caller makes no further call
\* once the WAL is longer.
MaxWalLen == 9
\* A failing wal.Write has written at most MaxShort bytes of its buffer.
MaxShort == 1
\* The short keys and the values serialized on their own have at most
\* MaxCodecLen bytes.
MaxCodecLen == 2
\* A buffer passed to Serialize or Deserialize is at most MaxCut bytes short.
MaxCut == 2

\* --------------------------------------------------------------- constants
LInsert == 1
LDelete == 2
LUpdate == 3
LRead == 4
LCommit == 5
LAbort == 6

\* var buf [4096]byte of Commit
BufSize == 4096
\* the largest length the one byte uint8(len(key)) of a serialized record holds
KeyLenLimit == 255

Nil == "nil"
ErrExist == "record already exists"
ErrNotExist == "record not exists"
ErrBufferShort == "buffer size is not enough to deserialize"
\* the error of a failed (*os.File).Write or (*os.File).Sync
ErrIO == "io error"
ErrUnexpected == "unexpected action"
\* a run-time panic ends the call
Panic == "panic"

\* ------------------------------------------------------------ input domains
\* keys the caller passes (Go strings, as byte sequences): short ones, and
\* one that is a byte longer than the key length byte of a record can say
ShortKeys == {<<1>>, <<2>>}
LongKey == [i \in 1..(KeyLenLimit + 1) |-> 1]
LongKeys == {<<1>>, LongKey}
Keys == ShortKeys \cup LongKeys
\* a value whose log entry (1 + 5 + 1 + 4091 bytes) does not fit the buffer
BigValue == [i \in 1..(BufSize - 5) |-> 0]
\* values the caller passes
Values == {<<7>>, <<8>>}
BigValues == {<<7>>, BigValue}
\* the byte the caller writes into a buffer it holds
MutBytes == {8}

\* the nil slice, and the addresses of allocated buffers
NilAddr == 0
NumAddr == 2 * Cardinality(Keys) + 1
Addr == 1..NumAddr

VARIABLES
    db,       \* txn.db: key -> Record (Value is a buffer address)
    writeSet, \* txn.writeSet: key -> RecordLog (Value is a buffer address)
    wal,      \* the bytes of the file txn.wal
    heap,     \* address -> the bytes of that buffer
    held,     \* the slice the caller got from its last Read and still holds
    ret,      \* the last call and the error it returned (a Read's value is held)
    pc,       \* where Commit stands: idle, log, marker, sync, apply
    todo,     \* the keys the first range loop of Commit has not reached
    synced,   \* the bytes of the WAL that are durable: its length when wal.Sync
              \* last returned nil
    wsPre,    \* the write-set (by content) when Commit was called
    dbPre,    \* db (by content) when Commit was called
    walPre,   \* the WAL when Commit was called
    db0,      \* db (by content) when the transaction started
    wal0,     \* the WAL when the transaction started
    inserted, \* per key: "yes" after an Insert of it returned nil with no Commit
              \* that returned nil, Delete of it that returned nil, or Abort
              \* since; "aborted" the same with an Abort since; else "no"
    codec     \* a use of the record codec without the engine: the entry
              \* serialized, the buffer, the entry deserialized into, and what
              \* the calls returned

vars == <<db, writeSet, wal, heap, held, ret, pc, todo, synced,
          wsPre, dbPre, walPre, db0, wal0, inserted, codec>>

\* ------------------------------------------------------------------ codec
Min(a, b) == IF a < b THEN a ELSE b

\* binary.BigEndian.PutUint32(buf, uint32(n)), for the lengths 0 <= n < 2^31
\* a slice of this model has (uint32(n) is n there)
PutUint32(n) ==
    <<(n \div 16777216) % 256, (n \div 65536) % 256, (n \div 256) % 256, n % 256>>

\* binary.BigEndian.Uint32(b)
Uint32(b) == b[1] * 16777216 + b[2] * 65536 + b[3] * 256 + b[4]

\* Serialize writes into the buffer it is given from its start on, so it is
\* modelled by the capacity len(buf) it is given and the bytes `out` it writes
\* at buf[0:]; the buffer afterwards is Overlay(buf, out).
Overlay(buf, out) == [i \in 1..Len(buf) |-> IF i <= Len(out) THEN out[i] ELSE buf[i]]

\* (r *Record) Serialize(buf) with len(buf) = cap: the count returned, the
\* error, the bytes written
RecordSerialize(r, cap) ==
    LET lk == Len(r.Key)
        lv == Len(r.Value)
        total == 5 + lk + lv
    IN  IF cap < total
        THEN [n |-> 0, err |-> ErrBufferShort, out |-> <<>>]
        ELSE [n |-> total, err |-> Nil,
              out |-> <<lk % 256>> \o PutUint32(lv) \o r.Key \o r.Value]

\* (r *Record) Deserialize(buf): the bytes consumed, the error, the record
\* after.  keyLen is a uint8, so the slice bound 5+keyLen is a uint8 sum and
\* wraps at 256, while total is an int sum; buf[5 : 5+keyLen] with a wrapped
\* bound below 5 panics (slice bounds out of range) before r is assigned.
RecordDeserialize(r, buf) ==
    IF Len(buf) < 5
    THEN [n |-> 0, err |-> ErrBufferShort, r |-> r]
    ELSE LET keyLen == buf[1]
             valueLen == Uint32(SubSeq(buf, 2, 5))
             total == 5 + keyLen + valueLen
             bound == (5 + keyLen) % (KeyLenLimit + 1)
         IN  IF Len(buf) < total
             THEN [n |-> 0, err |-> ErrBufferShort, r |-> r]
             ELSE IF bound < 5
             THEN [n |-> 0, err |-> Panic, r |-> r]
             ELSE [n |-> total, err |-> Nil,
                   r |-> [Key |-> SubSeq(buf, 6, bound),
                          Value |-> SubSeq(buf, bound + 1, total)]]

\* (r *RecordLog) Serialize(buf) with len(buf) = cap
RecordLogSerialize(r, cap) ==
    IF cap < 1
    THEN [n |-> 0, err |-> ErrBufferShort, out |-> <<>>]
    ELSE IF r.Action > LRead
    THEN [n |-> 1, err |-> Nil, out |-> <<r.Action>>]
    ELSE LET s == RecordSerialize([Key |-> r.Key, Value |-> r.Value], cap - 1)
         IN  IF s.err # Nil
             THEN [n |-> 0, err |-> s.err, out |-> <<>>]
             ELSE [n |-> 1 + s.n, err |-> Nil, out |-> <<r.Action>> \o s.out]

\* (r *RecordLog) Deserialize(buf)
RecordLogDeserialize(r, buf) ==
    IF Len(buf) < 1
    THEN [n |-> 0, err |-> ErrBufferShort, r |-> r]
    ELSE LET r1 == [r EXCEPT !.Action = buf[1]]
         IN  IF buf[1] = LCommit
             THEN [n |-> 1, err |-> Nil, r |-> r1]
             ELSE IF buf[1] \in {LInsert, LUpdate, LDelete}
             THEN LET d == RecordDeserialize([Key |-> r.Key, Value |-> r.Value], SubSeq(buf, 2, Len(buf)))
                  IN  IF d.err # Nil
                      THEN [n |-> 0, err |-> d.err, r |-> r1]
                      ELSE [n |-> 1 + d.n, err |-> Nil,
                            r |-> [Action |-> buf[1], Key |-> d.r.Key, Value |-> d.r.Value]]
             ELSE [n |-> 0, err |-> "action is not supported", r |-> r1]

\* ------------------------------------------------------------- the heap
\* the bytes of the slice at address a
ValOf(a) == IF a = NilAddr THEN <<>> ELSE heap[a]

\* a map (Go map) with no key
EmptyMap == [x \in {} |-> 0]
\* m[k] = r
Put(m, k, r) == [x \in DOMAIN m \cup {k} |-> IF x = k THEN r ELSE m[x]]
\* delete(m, k)
Remove(m, k) == [x \in DOMAIN m \ {k} |-> m[x]]

\* the keys in a fixed order, and the places of the engine that may hold a
\* slice: the db record of each key, then the write-set entry of each key
KeySeq == CHOOSE q \in [1..Cardinality(Keys) -> Keys] : \A i, j \in DOMAIN q : i # j => q[i] # q[j]
NumKeys == Cardinality(Keys)
Places(w, d) ==
    [p \in 1..(2 * NumKeys) |->
        IF p <= NumKeys
        THEN IF KeySeq[p] \in DOMAIN d THEN d[KeySeq[p]].Value ELSE NilAddr
        ELSE IF KeySeq[p - NumKeys] \in DOMAIN w THEN w[KeySeq[p - NumKeys]].Value ELSE NilAddr]

\* the address a buffer is moved to: the number of the first place referring
\* to it, NilAddr when no place of the engine refers to it
MovedTo(pl, a) ==
    IF a = NilAddr \/ \A p \in DOMAIN pl : pl[p] # a
    THEN NilAddr
    ELSE CHOOSE p \in DOMAIN pl : pl[p] = a /\ \A q \in DOMAIN pl : pl[q] = a => p <= q

\* garbage collection.  A buffer the engine does not refer to is gone, and
\* the caller lets go of a slice the engine no longer refers to (such a
\* buffer is the caller's alone and nothing the engine does can reach it).
\* A buffer in use is moved to the address MovedTo gives it: addresses are
\* not observable in Go, so moving a buffer changes nothing the program sees.
Collect(hp, w, d, h) ==
    LET pl == Places(w, d)
    IN  [heap |-> [a \in Addr |-> IF a \in DOMAIN pl /\ pl[a] # NilAddr /\ MovedTo(pl, pl[a]) = a
                                  THEN hp[pl[a]] ELSE <<>>],
         writeSet |-> [k \in DOMAIN w |-> [w[k] EXCEPT !.Value = MovedTo(pl, w[k].Value)]],
         db |-> [k \in DOMAIN d |-> [d[k] EXCEPT !.Value = MovedTo(pl, d[k].Value)]],
         held |-> MovedTo(pl, h)]

\* the engine and the caller go on with the heap hp, the write-set w, the db d
\* and the caller's slice h
Store(hp, w, d, h) ==
    LET c == Collect(hp, w, d, h)
    IN  /\ heap' = c.heap
        /\ writeSet' = c.writeSet
        /\ db' = c.db
        /\ held' = c.held

\* make([]byte, n): the address of a fresh buffer (the one address that is no
\* number of a place)
NewAddr == NumAddr

\* clone(v): the heap after copying the bytes v into the fresh buffer NewAddr
clone(v) == [heap EXCEPT ![NewAddr] = v]

\* the write-set and the db with every slice replaced by its bytes
WsView ==
    [k \in DOMAIN writeSet |->
        [Action |-> writeSet[k].Action, Key |-> writeSet[k].Key,
         Value |-> ValOf(writeSet[k].Value)]]
DbView ==
    [k \in DOMAIN db |-> [Key |-> db[k].Key, Value |-> ValOf(db[k].Value)]]

\* ------------------------------------------------------------------ Init
\* NewTxn(wal) on an empty log file
NewTxn ==
    /\ db = EmptyMap
    /\ writeSet = EmptyMap
    /\ wal = <<>>
    /\ heap = [a \in Addr |-> <<>>]
    /\ held = NilAddr
    /\ ret = [op |-> "NewTxn", err |-> Nil]
    /\ pc = "idle"
    /\ todo = {}
    /\ synced = 0
    /\ wsPre = EmptyMap
    /\ dbPre = EmptyMap
    /\ walPre = <<>>
    /\ db0 = EmptyMap
    /\ wal0 = <<>>
    /\ inserted = [k \in Keys |-> "no"]

\* the engine runs; the codec is used by Commit only
Init ==
    /\ NewTxn
    /\ codec = [op |-> "none"]

\* the last call ended a transaction: the next call is the first of a new one
Ended == ret.op = "Abort" \/ (ret.op = "Commit" /\ ret.err = Nil)

\* a call of the single caller, made while no Commit is running; the records
\* of the last Commit are dropped and a new transaction notes where it starts
Enter ==
    /\ pc = "idle"
    /\ Len(wal) <= MaxWalLen
    /\ db0' = IF Ended THEN DbView ELSE db0
    /\ wal0' = IF Ended THEN wal ELSE wal0
    /\ wsPre' = EmptyMap
    /\ dbPre' = EmptyMap
    /\ walPre' = <<>>
    /\ UNCHANGED <<pc, todo, synced, codec>>

\* a Read that looks at db only and does not see the write-set
ReadCommitted(key) ==
    /\ Enter
    /\ LET res == IF key \notin DOMAIN db
                  THEN [v |-> NilAddr, err |-> ErrNotExist]
                  ELSE [v |-> db[key].Value, err |-> Nil]
       IN  /\ ret' = [op |-> "Read", err |-> res.err]
           /\ Store(heap, writeSet, db, res.v)
    /\ UNCHANGED <<wal, inserted>>

\* ------------------------------------------------------------------ Read
Read(key) ==
    /\ Enter
    /\ LET inWs == key \in DOMAIN writeSet
           res == IF inWs
                  THEN IF writeSet[key].Action = LDelete
                       THEN [v |-> NilAddr, err |-> ErrNotExist]
                       ELSE IF writeSet[key].Action \in {LInsert, LUpdate}
                       THEN [v |-> writeSet[key].Value, err |-> Nil]
                       ELSE [v |-> NilAddr, err |-> ErrUnexpected]
                  ELSE IF key \notin DOMAIN db
                       THEN [v |-> NilAddr, err |-> ErrNotExist]
                       ELSE [v |-> db[key].Value, err |-> Nil]
       IN  /\ ret' = [op |-> "Read", err |-> res.err]
           /\ Store(heap, writeSet, db, res.v)
    /\ UNCHANGED <<wal, inserted>>

\* an Insert that turns a pending Delete into a pending Insert
InsertAfterDeleteAsInsert(key, value) ==
    /\ Enter
    /\ IF key \in DOMAIN writeSet
       THEN IF writeSet[key].Action # LDelete
            THEN /\ ret' = [op |-> "Insert", err |-> ErrExist]
                 /\ UNCHANGED <<writeSet, heap, db, held>>
            ELSE LET r == [writeSet[key] EXCEPT !.Action = LInsert, !.Value = NewAddr]
                     ws == Put(writeSet, r.Key, r)
                 IN  /\ Store(clone(value), ws, db, held)
                     /\ ret' = [op |-> "Insert", err |-> Nil]
       ELSE IF key \in DOMAIN db
            THEN /\ ret' = [op |-> "Insert", err |-> ErrExist]
                 /\ UNCHANGED <<writeSet, heap, db, held>>
            ELSE LET ws == Put(writeSet, key,
                               [Action |-> LInsert, Key |-> key, Value |-> NewAddr])
                 IN  /\ Store(clone(value), ws, db, held)
                     /\ ret' = [op |-> "Insert", err |-> Nil]
    /\ inserted' = IF ret'.err = Nil THEN [inserted EXCEPT ![key] = "yes"] ELSE inserted
    /\ UNCHANGED wal

\* an Insert that replaces a pending Insert or Update of the key instead of
\* returning ErrExist
InsertOverwrite(key, value) ==
    /\ Enter
    /\ IF key \in DOMAIN writeSet
       THEN LET r == [writeSet[key] EXCEPT !.Action = LUpdate, !.Value = NewAddr]
                ws == Put(writeSet, r.Key, r)
            IN  /\ Store(clone(value), ws, db, held)
                /\ ret' = [op |-> "Insert", err |-> Nil]
       ELSE IF key \in DOMAIN db
            THEN /\ ret' = [op |-> "Insert", err |-> ErrExist]
                 /\ UNCHANGED <<writeSet, heap, db, held>>
            ELSE LET ws == Put(writeSet, key,
                               [Action |-> LInsert, Key |-> key, Value |-> NewAddr])
                 IN  /\ Store(clone(value), ws, db, held)
                     /\ ret' = [op |-> "Insert", err |-> Nil]
    /\ inserted' = IF ret'.err = Nil THEN [inserted EXCEPT ![key] = "yes"] ELSE inserted
    /\ UNCHANGED wal

\* ---------------------------------------------------------------- Insert
Insert(key, value) ==
    /\ Enter
    /\ IF key \in DOMAIN writeSet
       THEN IF writeSet[key].Action # LDelete
            THEN /\ ret' = [op |-> "Insert", err |-> ErrExist]
                 /\ UNCHANGED <<writeSet, heap, db, held>>
            ELSE LET r == [writeSet[key] EXCEPT !.Action = LUpdate, !.Value = NewAddr]
                     ws == Put(writeSet, r.Key, r)
                 IN  /\ Store(clone(value), ws, db, held)
                     /\ ret' = [op |-> "Insert", err |-> Nil]
       ELSE IF key \in DOMAIN db
            THEN /\ ret' = [op |-> "Insert", err |-> ErrExist]
                 /\ UNCHANGED <<writeSet, heap, db, held>>
            ELSE LET ws == Put(writeSet, key,
                               [Action |-> LInsert, Key |-> key, Value |-> NewAddr])
                 IN  /\ Store(clone(value), ws, db, held)
                     /\ ret' = [op |-> "Insert", err |-> Nil]
    /\ inserted' = IF ret'.err = Nil THEN [inserted EXCEPT ![key] = "yes"] ELSE inserted
    /\ UNCHANGED wal

\* an Update that makes the pending entry an Update whatever it was
UpdateRetags(key, value) ==
    /\ Enter
    /\ IF key \in DOMAIN writeSet
       THEN IF writeSet[key].Action = LDelete
            THEN /\ ret' = [op |-> "Update", err |-> ErrNotExist]
                 /\ UNCHANGED <<writeSet, heap, db, held>>
            ELSE LET r == [writeSet[key] EXCEPT !.Value = NewAddr, !.Action = LUpdate]
                     ws == Put(writeSet, r.Key, r)
                 IN  /\ Store(clone(value), ws, db, held)
                     /\ ret' = [op |-> "Update", err |-> Nil]
       ELSE IF key \notin DOMAIN db
            THEN /\ ret' = [op |-> "Update", err |-> ErrNotExist]
                 /\ UNCHANGED <<writeSet, heap, db, held>>
            ELSE LET r == db[key]
                     ws == Put(writeSet, r.Key,
                               [Action |-> LUpdate, Key |-> r.Key, Value |-> NewAddr])
                 IN  /\ Store(clone(value), ws, db, held)
                     /\ ret' = [op |-> "Update", err |-> Nil]
    /\ UNCHANGED <<wal, inserted>>

\* ---------------------------------------------------------------- Update
Update(key, value) ==
    /\ Enter
    /\ IF key \in DOMAIN writeSet
       THEN IF writeSet[key].Action = LDelete
            THEN /\ ret' = [op |-> "Update", err |-> ErrNotExist]
                 /\ UNCHANGED <<writeSet, heap, db, held>>
            ELSE LET r == [writeSet[key] EXCEPT !.Value = NewAddr]
                     ws == Put(writeSet, r.Key, r)
                 IN  /\ Store(clone(value), ws, db, held)
                     /\ ret' = [op |-> "Update", err |-> Nil]
       ELSE IF key \notin DOMAIN db
            THEN /\ ret' = [op |-> "Update", err |-> ErrNotExist]
                 /\ UNCHANGED <<writeSet, heap, db, held>>
            ELSE LET r == db[key]
                     ws == Put(writeSet, r.Key,
                               [Action |-> LUpdate, Key |-> r.Key, Value |-> NewAddr])
                 IN  /\ Store(clone(value), ws, db, held)
                     /\ ret' = [op |-> "Update", err |-> Nil]
    /\ UNCHANGED <<wal, inserted>>

\* a Delete that keeps the entry of a pending Insert, as a pending Delete
DeleteKeepsEntry(key) ==
    /\ Enter
    /\ IF key \in DOMAIN writeSet
       THEN IF writeSet[key].Action = LDelete
            THEN /\ ret' = [op |-> "Delete", err |-> ErrNotExist]
                 /\ UNCHANGED <<writeSet, heap, db, held>>
            ELSE IF writeSet[key].Action = LInsert
            THEN LET r == [writeSet[key] EXCEPT !.Value = NilAddr, !.Action = LDelete]
                     ws == Put(writeSet, r.Key, r)
                 IN  /\ Store(heap, ws, db, held)
                     /\ ret' = [op |-> "Delete", err |-> Nil]
            ELSE LET r == [writeSet[key] EXCEPT !.Value = NilAddr, !.Action = LDelete]
                     ws == Put(writeSet, r.Key, r)
                 IN  /\ Store(heap, ws, db, held)
                     /\ ret' = [op |-> "Delete", err |-> Nil]
       ELSE IF key \notin DOMAIN db
            THEN /\ ret' = [op |-> "Delete", err |-> ErrNotExist]
                 /\ UNCHANGED <<writeSet, heap, db, held>>
            ELSE LET r == db[key]
                     ws == Put(writeSet, r.Key,
                               [Action |-> LDelete, Key |-> r.Key, Value |-> NilAddr])
                 IN  /\ Store(heap, ws, db, held)
                     /\ ret' = [op |-> "Delete", err |-> Nil]
    /\ inserted' = IF ret'.err = Nil THEN [inserted EXCEPT ![key] = "no"] ELSE inserted
    /\ UNCHANGED wal

\* a Delete that does not look whether the key is in db
DeleteAbsent(key) ==
    /\ Enter
    /\ IF key \in DOMAIN writeSet
       THEN IF writeSet[key].Action = LDelete
            THEN /\ ret' = [op |-> "Delete", err |-> ErrNotExist]
                 /\ UNCHANGED <<writeSet, heap, db, held>>
            ELSE IF writeSet[key].Action = LInsert
            THEN LET ws == Remove(writeSet, key)
                 IN  /\ Store(heap, ws, db, held)
                     /\ ret' = [op |-> "Delete", err |-> Nil]
            ELSE LET r == [writeSet[key] EXCEPT !.Value = NilAddr, !.Action = LDelete]
                     ws == Put(writeSet, r.Key, r)
                 IN  /\ Store(heap, ws, db, held)
                     /\ ret' = [op |-> "Delete", err |-> Nil]
       ELSE LET ws == Put(writeSet, key,
                          [Action |-> LDelete, Key |-> key, Value |-> NilAddr])
                 IN  /\ Store(heap, ws, db, held)
                     /\ ret' = [op |-> "Delete", err |-> Nil]
    /\ inserted' = IF ret'.err = Nil THEN [inserted EXCEPT ![key] = "no"] ELSE inserted
    /\ UNCHANGED wal

\* a Delete that removes a committed key from db at once instead of adding a
\* pending Delete
DeleteThrough(key) ==
    /\ Enter
    /\ IF key \in DOMAIN writeSet
       THEN IF writeSet[key].Action = LDelete
            THEN /\ ret' = [op |-> "Delete", err |-> ErrNotExist]
                 /\ UNCHANGED <<writeSet, heap, db, held>>
            ELSE IF writeSet[key].Action = LInsert
            THEN LET ws == Remove(writeSet, key)
                 IN  /\ Store(heap, ws, db, held)
                     /\ ret' = [op |-> "Delete", err |-> Nil]
            ELSE LET r == [writeSet[key] EXCEPT !.Value = NilAddr, !.Action = LDelete]
                     ws == Put(writeSet, r.Key, r)
                 IN  /\ Store(heap, ws, db, held)
                     /\ ret' = [op |-> "Delete", err |-> Nil]
       ELSE IF key \notin DOMAIN db
            THEN /\ ret' = [op |-> "Delete", err |-> ErrNotExist]
                 /\ UNCHANGED <<writeSet, heap, db, held>>
            ELSE /\ Store(heap, writeSet, Remove(db, key), held)
                 /\ ret' = [op |-> "Delete", err |-> Nil]
    /\ inserted' = IF ret'.err = Nil THEN [inserted EXCEPT ![key] = "no"] ELSE inserted
    /\ UNCHANGED wal

\* ---------------------------------------------------------------- Delete
Delete(key) ==
    /\ Enter
    /\ IF key \in DOMAIN writeSet
       THEN IF writeSet[key].Action = LDelete
            THEN /\ ret' = [op |-> "Delete", err |-> ErrNotExist]
                 /\ UNCHANGED <<writeSet, heap, db, held>>
            ELSE IF writeSet[key].Action = LInsert
            THEN LET ws == Remove(writeSet, key)
                 IN  /\ Store(heap, ws, db, held)
                     /\ ret' = [op |-> "Delete", err |-> Nil]
            ELSE LET r == [writeSet[key] EXCEPT !.Value = NilAddr, !.Action = LDelete]
                     ws == Put(writeSet, r.Key, r)
                 IN  /\ Store(heap, ws, db, held)
                     /\ ret' = [op |-> "Delete", err |-> Nil]
       ELSE IF key \notin DOMAIN db
            THEN /\ ret' = [op |-> "Delete", err |-> ErrNotExist]
                 /\ UNCHANGED <<writeSet, heap, db, held>>
            ELSE LET r == db[key]
                     ws == Put(writeSet, r.Key,
                               [Action |-> LDelete, Key |-> r.Key, Value |-> NilAddr])
                 IN  /\ Store(heap, ws, db, held)
                     /\ ret' = [op |-> "Delete", err |-> Nil]
    /\ inserted' = IF ret'.err = Nil THEN [inserted EXCEPT ![key] = "no"] ELSE inserted
    /\ UNCHANGED wal

\* ----------------------------------------------------------------- Abort
Abort ==
    /\ Enter
    /\ Store(heap, EmptyMap, db, held)
    /\ ret' = [op |-> "Abort", err |-> Nil]
    /\ inserted' = [k \in Keys |-> IF inserted[k] = "yes" THEN "aborted" ELSE inserted[k]]
    /\ UNCHANGED wal

\* ------------------------------------------------------------ the caller
\* the caller writes byte b into the first byte of the slice its last Read
\* returned (v[0] = b)
CallerMutate(b) ==
    /\ Enter
    /\ held # NilAddr
    /\ Len(heap[held]) >= 1
    /\ heap[held][1] # b
    /\ heap' = [heap EXCEPT ![held][1] = b]
    /\ ret' = [op |-> "Mutate", err |-> Nil]
    /\ UNCHANGED <<db, writeSet, wal, held, inserted>>

\* ---------------------------------------------------------------- Commit
\* r.Serialize(buf[i:]) of the pending entry of key k.  Commit never advances
\* i, so every entry is serialized at buf[0:], where all BufSize bytes are free,
\* and buf[:n] is the n bytes just written.
EntryOf(k) == RecordLogSerialize(WsView[k], BufSize)

\* Commit returns err (after the loops, or from inside one)
CommitReturn(err) ==
    /\ pc' = "idle"
    /\ todo' = {}
    /\ ret' = [op |-> "Commit", err |-> err]
    /\ inserted' = IF err = Nil THEN [k \in Keys |-> "no"] ELSE inserted

\* a Commit of an empty write-set that writes the commit log and syncs
CommitEmptyLogged ==
    /\ pc = "idle"
    /\ Len(wal) <= MaxWalLen
    /\ DOMAIN writeSet = {}
    /\ db0' = IF Ended THEN DbView ELSE db0
    /\ wal0' = IF Ended THEN wal ELSE wal0
    /\ wsPre' = WsView
    /\ dbPre' = DbView
    /\ walPre' = wal
    /\ wal' = wal \o <<LCommit>>
    /\ synced' = Len(wal')
    /\ UNCHANGED codec
    /\ CommitReturn(Nil)
    /\ UNCHANGED <<db, writeSet, heap, held>>

\* len(txn.writeSet) == 0: no need to write WAL
CommitEmpty ==
    /\ pc = "idle"
    /\ Len(wal) <= MaxWalLen
    /\ DOMAIN writeSet = {}
    /\ db0' = IF Ended THEN DbView ELSE db0
    /\ wal0' = IF Ended THEN wal ELSE wal0
    /\ wsPre' = WsView
    /\ dbPre' = DbView
    /\ walPre' = wal
    /\ UNCHANGED <<synced, codec>>
    /\ CommitReturn(Nil)
    /\ UNCHANGED <<db, writeSet, wal, heap, held>>

\* Commit is called with a non-empty write-set and reaches its first loop
CommitBegin ==
    /\ pc = "idle"
    /\ DOMAIN writeSet # {}
    /\ Len(wal) <= MaxWalLen
    /\ db0' = IF Ended THEN DbView ELSE db0
    /\ wal0' = IF Ended THEN wal ELSE wal0
    /\ wsPre' = WsView
    /\ dbPre' = DbView
    /\ walPre' = wal
    /\ UNCHANGED <<synced, codec>>
    /\ pc' = "log"
    /\ todo' = DOMAIN writeSet
    /\ ret' = [op |-> "Commit", err |-> "running"]
    /\ UNCHANGED <<db, writeSet, wal, heap, held, inserted>>

\* one turn of the first loop: the entry of k is serialized and written
CommitLog(k) ==
    /\ pc = "log"
    /\ k \in todo
    /\ LET s == EntryOf(k)
       IN  /\ s.err # ErrBufferShort
           /\ wal' = wal \o SubSeq(s.out, 1, s.n)
    /\ todo' = todo \ {k}
    /\ pc' = IF todo \ {k} = {} THEN "marker" ELSE "log"
    /\ UNCHANGED <<db, writeSet, heap, held, ret, synced, wsPre, dbPre, walPre, db0, wal0, inserted, codec>>

\* a failing turn of the first loop that also drops the entry of k from the
\* write-set
CommitLogFailDrop(k) ==
    /\ pc = "log"
    /\ k \in todo
    /\ LET s == EntryOf(k)
       IN  IF s.err = ErrBufferShort
           THEN /\ CommitReturn(ErrBufferShort)
                /\ UNCHANGED wal
           ELSE /\ CommitReturn(ErrIO)
                /\ \E m \in 0..Min(s.n - 1, MaxShort) : wal' = wal \o SubSeq(s.out, 1, m)
    /\ Store(heap, Remove(writeSet, k), db, held)
    /\ UNCHANGED <<synced, wsPre, dbPre, walPre, db0, wal0, codec>>

\* one turn of the first loop returns an error: the entry of k does not fit
\* the buffer (nothing is written), or wal.Write fails after writing the
\* first m bytes of the entry
CommitLogFail(k) ==
    /\ pc = "log"
    /\ k \in todo
    /\ LET s == EntryOf(k)
       IN  IF s.err = ErrBufferShort
           THEN /\ CommitReturn(ErrBufferShort)
                /\ UNCHANGED wal
           ELSE /\ CommitReturn(ErrIO)
                /\ \E m \in 0..Min(s.n - 1, MaxShort) : wal' = wal \o SubSeq(s.out, 1, m)
    /\ UNCHANGED <<db, writeSet, heap, held, synced, wsPre, dbPre, walPre, db0, wal0, codec>>

\* a Commit that goes on to the second loop without calling wal.Sync
CommitMarkerUnsynced ==
    /\ pc = "marker"
    /\ LET s == RecordLogSerialize([Action |-> LCommit, Key |-> <<>>, Value |-> <<>>], BufSize)
       IN  IF s.err # Nil
           THEN pc' = "panic" /\ UNCHANGED wal
           ELSE pc' = "apply" /\ wal' = wal \o SubSeq(s.out, 1, s.n)
    /\ UNCHANGED <<db, writeSet, heap, held, ret, todo, synced, wsPre, dbPre, walPre, db0, wal0, inserted, codec>>

\* the commit log is serialized and written
CommitMarker ==
    /\ pc = "marker"
    /\ LET s == RecordLogSerialize([Action |-> LCommit, Key |-> <<>>, Value |-> <<>>], BufSize)
       IN  IF s.err # Nil
           THEN pc' = "panic" /\ UNCHANGED wal
           ELSE pc' = "sync" /\ wal' = wal \o SubSeq(s.out, 1, s.n)
    /\ UNCHANGED <<db, writeSet, heap, held, ret, todo, synced, wsPre, dbPre, walPre, db0, wal0, inserted, codec>>

\* wal.Write of the commit log fails (none of its one byte is written)
CommitMarkerFail ==
    /\ pc = "marker"
    /\ CommitReturn(ErrIO)
    /\ UNCHANGED <<db, writeSet, wal, heap, held, synced, wsPre, dbPre, walPre, db0, wal0, codec>>

\* txn.wal.Sync() returns nil
CommitSync ==
    /\ pc = "sync"
    /\ synced' = Len(wal)
    /\ pc' = "apply"
    /\ UNCHANGED <<db, writeSet, wal, heap, held, ret, todo, wsPre, dbPre, walPre, db0, wal0, inserted, codec>>

\* txn.wal.Sync() fails
CommitSyncFail ==
    /\ pc = "sync"
    /\ CommitReturn(ErrIO)
    /\ UNCHANGED <<db, writeSet, wal, heap, held, synced, wsPre, dbPre, walPre, db0, wal0, codec>>

\* a second loop that leaves a deleted key in db
CommitApplyKeepDeleted(key) ==
    /\ pc = "apply"
    /\ key \in DOMAIN writeSet
    /\ LET rlog == writeSet[key]
           ws == Remove(writeSet, key)
           r == IF rlog.Key \in DOMAIN db THEN db[rlog.Key]
                ELSE [Key |-> <<>>, Value |-> NilAddr]
           d == IF rlog.Action = LInsert
                THEN Put(db, rlog.Key, [Key |-> rlog.Key, Value |-> rlog.Value])
                ELSE IF rlog.Action = LUpdate
                THEN Put(db, rlog.Key, [r EXCEPT !.Value = rlog.Value])
                ELSE db
       IN  IF rlog.Action \notin {LInsert, LUpdate, LDelete}
           THEN /\ CommitReturn(ErrUnexpected)
                /\ UNCHANGED <<db, writeSet, heap, held>>
           ELSE /\ Store(heap, ws, d, held)
                /\ IF DOMAIN ws = {}
                   THEN CommitReturn(Nil)
                   ELSE UNCHANGED <<pc, todo, ret, inserted>>
    /\ UNCHANGED <<wal, synced, wsPre, dbPre, walPre, db0, wal0, codec>>

\* one turn of the second loop: the entry of key is written back to db and
\* removed from the write-set; after the last turn Commit returns nil
CommitApply(key) ==
    /\ pc = "apply"
    /\ key \in DOMAIN writeSet
    /\ LET rlog == writeSet[key]
           ws == Remove(writeSet, key)
           r == IF rlog.Key \in DOMAIN db THEN db[rlog.Key]
                ELSE [Key |-> <<>>, Value |-> NilAddr]
           d == IF rlog.Action = LInsert
                THEN Put(db, rlog.Key, [Key |-> rlog.Key, Value |-> rlog.Value])
                ELSE IF rlog.Action = LUpdate
                THEN Put(db, rlog.Key, [r EXCEPT !.Value = rlog.Value])
                ELSE Remove(db, rlog.Key)
       IN  IF rlog.Action \notin {LInsert, LUpdate, LDelete}
           THEN /\ CommitReturn(ErrUnexpected)
                /\ UNCHANGED <<db, writeSet, heap, held>>
           ELSE /\ Store(heap, ws, d, held)
                /\ IF DOMAIN ws = {}
                   THEN CommitReturn(Nil)
                   ELSE UNCHANGED <<pc, todo, ret, inserted>>
    /\ UNCHANGED <<wal, synced, wsPre, dbPre, walPre, db0, wal0, codec>>

\* ------------------------------------------------------------------ Next
\* the steps of a running Commit
CommitStep ==
    \/ \E k \in Keys : CommitLog(k)
    \/ \E k \in Keys : CommitLogFail(k)
    \/ CommitMarker
    \/ CommitMarkerFail
    \/ CommitSync
    \/ CommitSyncFail
    \/ \E key \in Keys : CommitApply(key)

\* the calls that change the write-set, with keys from K and values from V
Write(K, V) ==
    \/ \E key \in K, value \in V : Insert(key, value)
    \/ \E key \in K, value \in V : Update(key, value)
    \/ \E key \in K : Delete(key)
    \/ Abort
    \/ CommitEmpty
    \/ CommitBegin

\* a caller that passes the keys of ShortKeys and the values of Values,
\* reads, and writes into the slices Read returned
Next ==
    \/ Write(ShortKeys, Values)
    \/ \E key \in ShortKeys : Read(key)
    \/ \E b \in MutBytes : CallerMutate(b)
    \/ CommitStep

Spec == Init /\ [][Next]_vars

\* a caller that passes the values of BigValues, one of which does not fit
\* the buffer of Commit, and does not read
NextBig ==
    \/ Write(ShortKeys, BigValues)
    \/ CommitStep

SpecBig == Init /\ [][NextBig]_vars

\* a caller that passes the keys of LongKeys, one of which is longer than
\* KeyLenLimit bytes
NextLong ==
    \/ Write(LongKeys, Values)
    \/ \E key \in LongKeys : Read(key)
    \/ \E b \in MutBytes : CallerMutate(b)
    \/ CommitStep

SpecLong == Init /\ [][NextLong]_vars

\* ------------------------------------------------------ the codec alone
\* the keys and values of the entries serialized: short ones, and keys of
\* the lengths up to KeyLenLimit
CodecKeys ==
    {[i \in 1..n |-> 1] : n \in (0..MaxCodecLen) \cup ((KeyLenLimit - 5)..KeyLenLimit)}
CodecValues == {[i \in 1..n |-> 7] : n \in 0..MaxCodecLen}
CodecActions == {LInsert, LDelete, LUpdate, LRead, LCommit, LAbort}

\* a buffer of cap bytes the caller passes to Serialize
FreshBuf(cap) == [i \in 1..cap |-> 9]

\* the entry a Deserialize is called on
Receiver == [Action |-> LInsert, Key |-> <<9>>, Value |-> <<9>>]

\* the bytes Serialize needs for the entry e: total of Record.Serialize, and
\* for a RecordLog one byte, or one byte more than the record
EncodedSize(kind, e) ==
    IF kind = "Record" THEN 5 + Len(e.Key) + Len(e.Value)
    ELSE IF e.Action > LRead THEN 1
    ELSE 1 + 5 + Len(e.Key) + Len(e.Value)

\* the buffer lengths tried for a need of size bytes: enough, one more than
\* enough, and up to MaxCut bytes too few
Capacities(size) == {c \in (size - MaxCut)..(size + 1) : c >= 0}

\* a caller is about to serialize the entry src into a fresh buffer
InitCodec ==
    /\ NewTxn
    /\ \E kind \in {"Record", "RecordLog"}, a \in CodecActions,
          k \in CodecKeys, v \in CodecValues :
          LET src == [Action |-> a, Key |-> k, Value |-> v]
          IN  \E cap \in Capacities(EncodedSize(kind, src)) :
                codec = [op |-> "start", kind |-> kind, src |-> src,
                         buf |-> FreshBuf(cap), dst |-> Receiver, cut |-> 0,
                         sn |-> 0, serr |-> Nil, dn |-> 0, derr |-> Nil]

\* the codec is used on its own: the engine stands
EngineStands ==
    UNCHANGED <<db, writeSet, wal, heap, held, ret, pc, todo, synced,
                wsPre, dbPre, walPre, db0, wal0, inserted>>

\* n, err := r.Serialize(buf) on the Record of src
SerializeRecord ==
    /\ codec.op = "start"
    /\ codec.kind = "Record"
    /\ LET s == RecordSerialize([Key |-> codec.src.Key, Value |-> codec.src.Value],
                                Len(codec.buf))
       IN  codec' = [codec EXCEPT !.op = "serialized", !.buf = Overlay(codec.buf, s.out),
                                  !.sn = s.n, !.serr = s.err]
    /\ EngineStands

\* n, err := r.Serialize(buf) on the RecordLog src
SerializeRecordLog ==
    /\ codec.op = "start"
    /\ codec.kind = "RecordLog"
    /\ LET s == RecordLogSerialize(codec.src, Len(codec.buf))
       IN  codec' = [codec EXCEPT !.op = "serialized", !.buf = Overlay(codec.buf, s.out),
                                  !.sn = s.n, !.serr = s.err]
    /\ EngineStands

\* the caller keeps buf[:n-m] of the n bytes serialized
Cut(m) ==
    /\ codec.op = "serialized"
    /\ codec.serr = Nil
    /\ m <= codec.sn
    /\ codec' = [codec EXCEPT !.op = "cut", !.cut = m,
                              !.buf = SubSeq(codec.buf, 1, codec.sn - m)]
    /\ EngineStands

\* n, err := r.Deserialize(buf) into the Record of dst
DeserializeRecord ==
    /\ codec.op \in {"serialized", "cut"}
    /\ codec.serr = Nil
    /\ codec.kind = "Record"
    /\ LET d == RecordDeserialize([Key |-> codec.dst.Key, Value |-> codec.dst.Value],
                                  codec.buf)
       IN  codec' = [codec EXCEPT !.op = "deserialized",
                                  !.dst = [Action |-> codec.dst.Action,
                                           Key |-> d.r.Key, Value |-> d.r.Value],
                                  !.dn = d.n, !.derr = d.err]
    /\ EngineStands

\* n, err := r.Deserialize(buf) into the RecordLog dst
DeserializeRecordLog ==
    /\ codec.op \in {"serialized", "cut"}
    /\ codec.serr = Nil
    /\ codec.kind = "RecordLog"
    /\ LET d == RecordLogDeserialize(codec.dst, codec.buf)
       IN  codec' = [codec EXCEPT !.op = "deserialized", !.dst = d.r,
                                  !.dn = d.n, !.derr = d.err]
    /\ EngineStands

NextCodec ==
    \/ SerializeRecord
    \/ SerializeRecordLog
    \/ \E m \in 1..MaxCut : Cut(m)
    \/ DeserializeRecord
    \/ DeserializeRecordLog

SpecCodec == InitCodec /\ [][NextCodec]_vars

\* ---------------------------------------------------------- properties
\* Commit has returned nil
CommitOk == ret.op = "Commit" /\ ret.err = Nil

\* Commit has returned an error
CommitFailed == ret.op = "Commit" /\ ret.err \notin {Nil, "running"}

\* the orders in which a range over the map w may visit its keys
Orders(w) ==
    {q \in [1..Cardinality(DOMAIN w) -> DOMAIN w] : \A i, j \in DOMAIN q : i # j => q[i] # q[j]}

\* the serialized entries of w, one after the other in the order q
RECURSIVE CatEntries(_, _)
CatEntries(q, w) ==
    IF q = <<>>
    THEN <<>>
    ELSE RecordLogSerialize(w[Head(q)], BufSize).out \o CatEntries(Tail(q), w)

\* the WAL is `from`, then one serialized entry per key of w in some order,
\* then the commit log
LoggedExactly(from, w) ==
    \E q \in Orders(w) : wal = from \o CatEntries(q, w) \o <<LCommit>>

\* C1: once Commit has returned nil the write-set is empty and db shows all of
\* the write-set the Commit was called with: every key with a pending Insert
\* or Update is in db with the pending value, every key with a pending Delete
\* is not in db, and every other key is as it was before the Commit.
C1_AtomicVisibility ==
    CommitOk =>
        /\ DOMAIN writeSet = {}
        /\ \A k \in Keys :
            IF k \in DOMAIN wsPre
            THEN IF wsPre[k].Action \in {LInsert, LUpdate}
                 THEN k \in DOMAIN db /\ DbView[k].Value = wsPre[k].Value
                 ELSE wsPre[k].Action = LDelete /\ k \notin DOMAIN db
            ELSE /\ k \in DOMAIN db <=> k \in DOMAIN dbPre
                 /\ k \in DOMAIN db => DbView[k] = dbPre[k]

\* a Commit of a pending Delete and a pending Insert or Update has returned nil
C1_Witness ==
    /\ CommitOk
    /\ \E k1, k2 \in DOMAIN wsPre :
        /\ wsPre[k1].Action = LDelete
        /\ wsPre[k2].Action \in {LInsert, LUpdate}

\* C2: whenever a Commit has changed db, the WAL holds, after what it held
\* when Commit was called, one serialized entry for every pending write of the
\* write-set, then the commit log, and wal.Sync has returned nil with all of
\* these bytes written.
C2_WriteAhead ==
    (ret.op = "Commit" /\ DbView # dbPre) =>
        /\ synced = Len(wal)
        /\ LoggedExactly(walPre, wsPre)

\* the second loop of a Commit has changed db and has entries left to apply
C2_Witness ==
    /\ pc = "apply"
    /\ DbView # dbPre
    /\ DOMAIN writeSet # {}

\* C3: when Commit has returned an error (an entry does not fit the buffer,
\* a write of an entry or of the commit log fails, or the sync fails) the
\* write-set and db are what they were when Commit was called.
C3_FailureIntact ==
    CommitFailed => WsView = wsPre /\ DbView = dbPre /\ pc = "idle"

\* Commit has returned ErrBufferShort after it wrote the entry of another key
C3_Witness ==
    /\ ret = [op |-> "Commit", err |-> ErrBufferShort]
    /\ wal # walPre
    /\ DOMAIN writeSet # {}

\* C4: after Abort the write-set is empty, db is what it was when the
\* transaction started, and the WAL holds no byte the transaction wrote.
C4_AbortIsolation ==
    ret.op = "Abort" => DOMAIN writeSet = {} /\ DbView = db0 /\ wal = wal0

\* C5: the bytes a transaction with a non-empty write-set has added to the
\* WAL when its Commit returns nil are one serialized entry per key of the
\* write-set, in some order, then the commit log.
C5_WalShape ==
    (CommitOk /\ DOMAIN wsPre # {}) => LoggedExactly(wal0, wsPre)

\* the bytes of the slice the last Read returned, after the step
Returned == IF held' = NilAddr THEN <<>> ELSE heap'[held']

\* what Read(k) is to return from the state before the step
ReadExpected(k) ==
    IF k \in DOMAIN writeSet /\ writeSet[k].Action \in {LInsert, LUpdate}
    THEN ret'.err = Nil /\ Returned = WsView[k].Value
    ELSE IF k \in DOMAIN writeSet /\ writeSet[k].Action = LDelete
    THEN ret'.err = ErrNotExist
    ELSE IF k \in DOMAIN db
    THEN ret'.err = Nil /\ Returned = DbView[k].Value
    ELSE ret'.err = ErrNotExist

\* C6: Read(k) returns the pending value when k has a pending Insert or
\* Update, ErrNotExist when k has a pending Delete, and otherwise the
\* committed value of k, or ErrNotExist when k is not in db.
C6_ReadYourWrites ==
    [][\A k \in Keys : Read(k) => ReadExpected(k)]_vars

\* Read has returned the value of a pending Insert of a key that is not in db
C6_Witness ==
    /\ ret = [op |-> "Read", err |-> Nil]
    /\ held # NilAddr
    /\ \E k \in DOMAIN writeSet :
        /\ k \notin DOMAIN db
        /\ writeSet[k].Action = LInsert
        /\ writeSet[k].Value = held
        /\ ValOf(held) \in Values

\* the step leaves db, the write-set and the WAL exactly as they were
NoEffect == UNCHANGED <<db, writeSet, wal, heap>>

\* the conflict rules of Insert, Delete and Update, for the keys whose earlier
\* Insert is in one of the states of `after`
ConflictRules(after) ==
    \A k \in Keys :
        /\ \A v \in Values :
            (inserted[k] \in after /\ Insert(k, v)) => (ret'.err = ErrExist /\ NoEffect)
        /\ \A v \in Values :
            (k \in DOMAIN db
                /\ ~(k \in DOMAIN writeSet /\ writeSet[k].Action = LDelete)
                /\ Insert(k, v))
            => (ret'.err = ErrExist /\ NoEffect)
        /\ (k \notin DOMAIN db /\ k \notin DOMAIN writeSet /\ Delete(k))
            => (ret'.err = ErrNotExist /\ NoEffect)
        /\ \A v \in Values :
            (k \notin DOMAIN db /\ k \notin DOMAIN writeSet /\ Update(k, v))
            => (ret'.err = ErrNotExist /\ NoEffect)

\* C7 as stated: an Insert of a key that was inserted before with no Commit
\* and no Delete of the key since fails with ErrExist, also when an Abort
\* came in between.
C7_ConflictRulesAsStated ==
    [][ConflictRules({"yes", "aborted"})]_vars

\* C7: an Insert of a key that was inserted before, with no successful Commit,
\* no Delete of the key and no Abort since, fails with ErrExist; an Insert of
\* a key in db with no pending Delete fails with ErrExist; a Delete or an
\* Update of a key with no committed and no pending record fails with
\* ErrNotExist; each of these failing calls leaves db, the write-set and the
\* WAL as they were.
C7_ConflictRules ==
    [][ConflictRules({"yes"})]_vars

\* an Insert has failed with ErrExist on a key that is pending and not in db
C7_Witness ==
    /\ ret = [op |-> "Insert", err |-> ErrExist]
    /\ DOMAIN db = {}
    /\ \E k \in Keys : inserted[k] = "yes" /\ k \in DOMAIN writeSet

\* the step is a call of Read, Insert, Update, Delete or Abort
PlainCall ==
    \/ \E k \in Keys : Read(k)
    \/ \E k \in Keys, v \in Values : Insert(k, v)
    \/ \E k \in Keys, v \in Values : Update(k, v)
    \/ \E k \in Keys : Delete(k)
    \/ Abort

\* C8: a call of Read, Insert, Update, Delete or Abort, failing or not, leaves
\* db and the WAL unchanged, and Read leaves the write-set unchanged too; the
\* engine changes db only in the second loop of a Commit, which then does
\* not return an error.
C8_Frame ==
    [][/\ ~(DbView' = DbView /\ db' = db /\ wal' = wal) => ~PlainCall
       /\ ~(WsView' = WsView /\ writeSet' = writeSet) => ~(\E k \in Keys : Read(k))
       /\ (DbView' # DbView /\ ~(\E b \in MutBytes : CallerMutate(b)))
            => (pc = "apply" /\ ret'.err \in {Nil, "running"})]_vars

\* Delete has succeeded on a committed key: the key is still in db
C8_Witness ==
    /\ ret = [op |-> "Delete", err |-> Nil]
    /\ \E k \in DOMAIN db : k \in DOMAIN writeSet /\ writeSet[k].Action = LDelete

\* C9: a write of the caller into the bytes Read returned changes neither the
\* value the write-set holds nor the value db holds.
C9_NoAlias ==
    [][(\E b \in MutBytes : CallerMutate(b)) => (DbView' = DbView /\ WsView' = WsView)]_vars

\* the bytes the step appends to the WAL
Appended == SubSeq(wal', Len(wal) + 1, Len(wal'))

\* the entries a Commit serializes: the pending entries it was called with
\* and the commit log
Serialized ==
    {RecordLogSerialize(wsPre[k], BufSize).out : k \in DOMAIN wsPre} \cup {<<LCommit>>}

\* C10: Commit with an empty write-set returns nil, appends nothing to the
\* WAL, does not sync and leaves db unchanged; and every step that changes
\* the WAL appends to it the first bytes of a serialized entry whose action is
\* Insert, Delete, Update or Commit, never Read or Abort.
C10_EmptyCommit ==
    [][/\ CommitEmpty =>
            /\ ret' = [op |-> "Commit", err |-> Nil]
            /\ wal' = wal
            /\ synced' = synced
            /\ DbView' = DbView
            /\ pc' = "idle"
       /\ wal' # wal =>
            /\ Len(wal') > Len(wal)
            /\ SubSeq(wal', 1, Len(wal)) = wal
            /\ Appended[1] \in {LInsert, LDelete, LUpdate, LCommit}
            /\ \E e \in Serialized :
                Len(Appended) <= Len(e) /\ Appended = SubSeq(e, 1, Len(Appended))]_vars

\* Commit with an empty write-set has returned nil while the WAL holds bytes
\* that no sync has covered
C10_Witness ==
    /\ CommitOk
    /\ DOMAIN wsPre = {}
    /\ DOMAIN writeSet = {}
    /\ Len(wal) > synced

\* C11: a Record with a key of at most KeyLenLimit bytes, serialized into a
\* buffer that is large enough and deserialized from that buffer, comes back
\* with the same key and the same value, and the bytes consumed are the bytes
\* written, 5 + len(key) + len(value).
C11_RoundTrip ==
    (/\ codec.op = "deserialized"
     /\ codec.kind = "Record"
     /\ codec.cut = 0
     /\ Len(codec.src.Key) <= KeyLenLimit)
    => /\ codec.serr = Nil /\ codec.derr = Nil
       /\ codec.dst.Key = codec.src.Key
       /\ codec.dst.Value = codec.src.Value
       /\ codec.dn = codec.sn
       /\ codec.sn = 5 + Len(codec.src.Key) + Len(codec.src.Value)

\* the buffer is shorter than the record its first five bytes declare
RecordShort(buf) ==
    Len(buf) < 5 \/ Len(buf) < 5 + buf[1] + Uint32(SubSeq(buf, 2, 5))

\* the buffer is shorter than the entry its first bytes declare
DeclaredShort(kind, buf) ==
    IF kind = "Record" THEN RecordShort(buf)
    ELSE \/ Len(buf) < 1
         \/ buf[1] \in {LInsert, LUpdate, LDelete} /\ RecordShort(SubSeq(buf, 2, Len(buf)))

\* C12: Serialize into a buffer smaller than the entry needs returns
\* ErrBufferShort and leaves every byte of the buffer as it was; Deserialize
\* from a buffer shorter than its header declares returns ErrBufferShort and
\* leaves the action, the key and the value of the receiver as they were.
C12_BufferShort ==
    /\ (codec.op = "serialized" /\ Len(codec.buf) < EncodedSize(codec.kind, codec.src))
        => /\ codec.serr = ErrBufferShort
           /\ codec.sn = 0
           /\ codec.buf = FreshBuf(Len(codec.buf))
    /\ (codec.op = "deserialized" /\ DeclaredShort(codec.kind, codec.buf))
        => /\ codec.derr = ErrBufferShort
           /\ codec.dn = 0
           /\ codec.dst = Receiver

\* the key length byte of the serialized entry e says how many key bytes
\* follow it
KeyLenByteRight(e) ==
    RecordLogSerialize(e, BufSize).err = Nil
        => RecordLogSerialize(e, BufSize).out[2] = Len(e.Key)

\* C13: every record in the write-set or in db, and every record a Commit
\* encodes into the WAL, has a key of at most KeyLenLimit bytes, and the key
\* length byte written to the WAL is the number of key bytes that follow it.
C13_KeyLength ==
    /\ \A k \in DOMAIN writeSet : Len(writeSet[k].Key) <= KeyLenLimit
    /\ \A k \in DOMAIN db : Len(db[k].Key) <= KeyLenLimit
    /\ \A k \in DOMAIN wsPre :
        Len(wsPre[k].Key) <= KeyLenLimit /\ KeyLenByteRight(wsPre[k])

\* C14: a Commit on which no write and no sync fails returns ErrBufferShort
\* exactly when some pending entry needs more than BufSize bytes, and when it
\* returns ErrBufferShort it has appended nothing to the WAL.
C14_CapacityRule ==
    /\ CommitOk => \A k \in DOMAIN wsPre : EncodedSize("RecordLog", wsPre[k]) <= BufSize
    /\ (ret = [op |-> "Commit", err |-> ErrBufferShort])
        => /\ \E k \in DOMAIN wsPre : EncodedSize("RecordLog", wsPre[k]) > BufSize
           /\ wal = walPre

\* the step is the last turn of the second loop of a Commit that returns nil
CommitReturnsNil == pc = "apply" /\ pc' = "idle" /\ ret' = [op |-> "Commit", err |-> Nil]

\* the step leaves the entries of the keys other than k as they were
OthersKept(k) ==
    \A j \in Keys \ {k} :
        /\ j \in DOMAIN writeSet' <=> j \in DOMAIN writeSet
        /\ j \in DOMAIN writeSet => WsView'[j] = WsView[j]

\* C15: Insert(k, v) of a key that is in db and has a pending Delete returns
\* nil and leaves one entry for k, an Update with the value v; a Commit that
\* then returns nil has written one entry for k, an Update, and leaves db[k]
\* with the key k and the pending value.
C15_InsertAfterDelete ==
    [][\A k \in Keys :
        /\ \A v \in Values :
            (k \in DOMAIN db /\ k \in DOMAIN writeSet
                /\ writeSet[k].Action = LDelete /\ Insert(k, v))
            => /\ ret'.err = Nil
               /\ k \in DOMAIN writeSet'
               /\ WsView'[k] = [Action |-> LUpdate, Key |-> k, Value |-> v]
               /\ OthersKept(k)
        /\ (CommitReturnsNil /\ inserted[k] = "yes" /\ k \in DOMAIN dbPre)
            => /\ wsPre[k].Action = LUpdate
               /\ LoggedExactly(walPre, wsPre)
               /\ k \in DOMAIN db'
               /\ DbView'[k] = [Key |-> k, Value |-> wsPre[k].Value]]_vars

\* the second loop of a Commit has applied the Update that an Insert after a
\* pending Delete left for a key of db, with a new value
C15_Witness ==
    /\ pc = "apply"
    /\ \E k \in DOMAIN dbPre :
        /\ inserted[k] = "yes"
        /\ k \notin DOMAIN writeSet
        /\ k \in DOMAIN db
        /\ DbView[k].Value = wsPre[k].Value
        /\ DbView[k].Value # dbPre[k].Value

\* C16: Delete(k) of a key with a pending Insert returns nil and removes the
\* entry of k; with no entry and no committed record of k, Read(k) and
\* Delete(k) return ErrNotExist, Insert(k, v) returns nil and leaves a pending
\* Insert of v, and a Commit that returns nil has written no entry for k and
\* leaves k out of db.
C16_DeleteOfPendingInsert ==
    [][\A k \in Keys :
        /\ (k \in DOMAIN writeSet /\ writeSet[k].Action = LInsert /\ Delete(k))
            => /\ ret'.err = Nil
               /\ k \notin DOMAIN writeSet'
               /\ k \notin DOMAIN db'
               /\ OthersKept(k)
        /\ (k \notin DOMAIN writeSet /\ k \notin DOMAIN db)
            => /\ (ret'.op = "Read" /\ Read(k)) => ret'.err = ErrNotExist
               /\ (ret'.op = "Delete" /\ Delete(k)) => (ret'.err = ErrNotExist /\ NoEffect)
               /\ \A v \in Values :
                    (ret'.op = "Insert" /\ Insert(k, v)) =>
                        /\ ret'.err = Nil
                        /\ k \in DOMAIN writeSet'
                        /\ WsView'[k] = [Action |-> LInsert, Key |-> k, Value |-> v]
               /\ (ret'.op = "Commit" /\ CommitEmpty) => (k \notin DOMAIN db' /\ wal' = wal)
        /\ (CommitReturnsNil /\ k \notin DOMAIN wsPre /\ k \notin DOMAIN dbPre)
            => (k \notin DOMAIN db' /\ LoggedExactly(walPre, wsPre))]_vars

\* Delete has returned nil while db is empty: it removed a pending Insert
C16_Witness ==
    /\ ret = [op |-> "Delete", err |-> Nil]
    /\ DOMAIN db = {}
    /\ DOMAIN writeSet = {}

\* every entry of the write-set is stored under its own key, and a pending
\* Delete has no value
WsShape ==
    /\ DOMAIN writeSet \subseteq Keys
    /\ \A k \in DOMAIN writeSet :
        /\ writeSet[k].Key = k
        /\ writeSet[k].Action = LDelete => (writeSet[k].Value = NilAddr /\ WsView[k].Value = <<>>)

\* C17: Update(k, v) of a key with a pending Insert or Update replaces the
\* pending value and keeps the action; Delete(k) of a key with a pending
\* Update makes the entry a Delete with an empty value; and in every state the
\* write-set has one entry per key at most, stored under the key of its
\* record, with an empty value when it is a Delete.
C17_PerKeyMerge ==
    [][/\ \A k \in Keys :
            /\ \A v \in Values :
                (k \in DOMAIN writeSet /\ writeSet[k].Action \in {LInsert, LUpdate}
                    /\ Update(k, v))
                => /\ ret'.err = Nil
                   /\ k \in DOMAIN writeSet'
                   /\ WsView'[k] = [WsView[k] EXCEPT !.Value = v]
                   /\ OthersKept(k)
            /\ (k \in DOMAIN writeSet /\ writeSet[k].Action = LUpdate /\ Delete(k))
                => /\ ret'.err = Nil
                   /\ k \in DOMAIN writeSet'
                   /\ WsView'[k] = [Action |-> LDelete, Key |-> k, Value |-> <<>>]
                   /\ OthersKept(k)
       /\ WsShape /\ WsShape']_vars

\* Update has returned nil on the one pending entry, an Insert
C17_Witness ==
    /\ ret = [op |-> "Update", err |-> Nil]
    /\ DOMAIN db = {}
    /\ \E k \in Keys : DOMAIN writeSet = {k} /\ writeSet[k].Action = LInsert

\* C20: outside the second loop of Commit every entry of the write-set is an
\* Insert, an Update or a Delete, a key with a pending Insert is not in db and
\* a key with a pending Update or Delete is in db; no call returns the
\* unexpected action error, and every record of db has the key it is stored
\* under.
C20_Consistency ==
    /\ pc # "apply" =>
        \A k \in DOMAIN writeSet :
            /\ writeSet[k].Action \in {LInsert, LUpdate, LDelete}
            /\ writeSet[k].Action = LInsert => k \notin DOMAIN db
            /\ writeSet[k].Action \in {LUpdate, LDelete} => k \in DOMAIN db
    /\ ret.err # ErrUnexpected
    /\ pc # "panic"
    /\ \A k \in DOMAIN db : db[k].Key = k /\ db[k].Key # <<>>

\* a pending Insert of one key and a pending Update or Delete of another
C20_Witness ==
    /\ pc = "idle"
    /\ \E k1, k2 \in DOMAIN writeSet :
        /\ writeSet[k1].Action = LInsert
        /\ writeSet[k2].Action \in {LUpdate, LDelete}

\* the key space d after the entries of p are applied in their order
RECURSIVE ApplyAll(_, _)
ApplyAll(d, p) ==
    IF p = <<>>
    THEN d
    ELSE LET e == Head(p)
         IN  ApplyAll(IF e.Action = LDelete
                      THEN Remove(d, e.Key)
                      ELSE Put(d, e.Key, [Key |-> e.Key, Value |-> e.Value]),
                      Tail(p))

\* replay of the WAL bytes b: d is the key space after the last commit log,
\* p the entries read since; the entries after the last commit log, and
\* whatever follows bytes that are no entry, are ignored
RECURSIVE Replay(_, _, _)
Replay(b, d, p) ==
    IF b = <<>>
    THEN d
    ELSE LET x == RecordLogDeserialize([Action |-> 0, Key |-> <<>>, Value |-> <<>>], b)
         IN  IF x.err # Nil
             THEN d
             ELSE IF x.r.Action = LCommit
             THEN Replay(SubSeq(b, x.n + 1, Len(b)), ApplyAll(d, p), <<>>)
             ELSE Replay(SubSeq(b, x.n + 1, Len(b)), d, Append(p, x.r))

\* C18: whenever no Commit is running, db is the key space the replay of the
\* WAL from the empty state gives.
C18_WalDbAgree ==
    pc = "idle" => DbView = Replay(wal, EmptyMap, <<>>)

\* the values of db, and the values the transaction sees: those of db with
\* the pending writes laid over them
DbVals == [k \in DOMAIN db |-> DbView[k].Value]
View ==
    [k \in {j \in DOMAIN db \cup DOMAIN writeSet :
                j \in DOMAIN writeSet => writeSet[j].Action # LDelete} |->
        IF k \in DOMAIN writeSet THEN WsView[k].Value ELSE DbView[k].Value]

\* C19: the engine and a plain map that starts a transaction as db go in
\* step, the map being the values the transaction sees: Read returns the
\* value of the map or ErrNotExist, Insert returns nil and adds the key if it
\* is absent and ErrExist otherwise, Update and Delete return nil and change
\* the map if the key is present and ErrNotExist otherwise, nothing else
\* changes the map within a transaction, a Commit that returns nil leaves db
\* equal to the map, and Abort leaves db and the map as db was when the
\* transaction started.
C19_Refinement ==
    [][/\ \A k \in Keys :
            /\ (ret'.op = "Read" /\ Read(k))
                => /\ IF k \in DOMAIN View
                      THEN ret'.err = Nil /\ Returned = View[k]
                      ELSE ret'.err = ErrNotExist
                   /\ View' = View
            /\ \A v \in Values :
                (ret'.op = "Insert" /\ Insert(k, v))
                => IF k \notin DOMAIN View
                   THEN ret'.err = Nil /\ View' = Put(View, k, v)
                   ELSE ret'.err = ErrExist /\ View' = View
            /\ \A v \in Values :
                (ret'.op = "Update" /\ Update(k, v))
                => IF k \in DOMAIN View
                   THEN ret'.err = Nil /\ View' = Put(View, k, v)
                   ELSE ret'.err = ErrNotExist /\ View' = View
            /\ (ret'.op = "Delete" /\ Delete(k))
                => IF k \in DOMAIN View
                   THEN ret'.err = Nil /\ View' = Remove(View, k)
                   ELSE ret'.err = ErrNotExist /\ View' = View
       /\ Ended => View = DbVals
       /\ ret'.op \in {"Commit", "Mutate"} => View' = View
       /\ (ret'.op = "Commit" /\ ret'.err = Nil) => DbVals' = View
       /\ ret'.op = "Abort" =>
            /\ DbView' = db0'
            /\ View' = [k \in DOMAIN db0' |-> db0'[k].Value]]_vars

====
